---------------------------- MODULE Spec2Model ----------------------------
(***************************************************************************)
(* Model of python/organize_imports.py: the import organizer for Java and  *)
(* Kotlin sources.                                                         *)
(*                                                                         *)
(* A string is a sequence of code points, so that strip(), the two regular *)
(* expressions, split("."), tuple ordering and the substring tests are     *)
(* computed character by character as Python computes them.  A file's      *)
(* content is one flat string; readlines() splits it and writelines()      *)
(* joins it.  Indices are 1-based (Python's idx + 1); package_idx = 0      *)
(* stands for Python's -1.                                                 *)
(*                                                                         *)
(* Three specifications share the module:                                  *)
(*   SpecSort  sort_imports applied to a bounded sequence of records       *)
(*   SpecFile  process_file applied repeatedly to one bounded file         *)
(*   SpecRun   scan_and_process over a bounded directory, where any read   *)
(*             may raise                                                   *)
(***************************************************************************)
EXTENDS Integers, Sequences, FiniteSets, TLC

VARIABLES
    \* sort_imports
    imports, groups, ordered, pcS,
    \* process_file on one file
    ext, content0, content, out1, passes,
    \* scan_and_process
    fs0, fs, idx, pc, found_imports, star_import_files, processed_files,
    processed_imports, log, printed

sortVars == <<imports, groups, ordered, pcS>>
fileVars == <<ext, content0, content, out1, passes>>
runVars  == <<fs0, fs, idx, pc, found_imports, star_import_files,
              processed_files, processed_imports, log, printed>>
vars == <<sortVars, fileVars, runVars>>

-----------------------------------------------------------------------------
(* Bounds *)

MaxImports == 3
MaxLines == 3
MaxPasses == 2
NumFiles == 2

-----------------------------------------------------------------------------
(* String literals, as code points *)

EmptyStr == <<>>
NL == <<10>>
Semicolon == <<59>>
\* "import"
kwImport == <<105, 109, 112, 111, 114, 116>>
\* "static"
kwStatic == <<115, 116, 97, 116, 105, 99>>
\* "package"
kwPackage == <<112, 97, 99, 107, 97, 103, 101>>
\* "import static"
kwImportStatic == <<105, 109, 112, 111, 114, 116, 32, 115, 116, 97, 116, 105, 99>>
\* "import "
kwImportSp == <<105, 109, 112, 111, 114, 116, 32>>
\* "//"
slashes == <<47, 47>>
\* "*"
starChar == <<42>>
\* "android"
android == <<97, 110, 100, 114, 111, 105, 100>>
\* "androidx"
androidx == <<97, 110, 100, 114, 111, 105, 100, 120>>
\* "com"
com == <<99, 111, 109>>
\* "net"
net == <<110, 101, 116>>
\* "org"
org == <<111, 114, 103>>
\* "kotlin"
kotlin == <<107, 111, 116, 108, 105, 110>>
\* "kotlinx"
kotlinx == <<107, 111, 116, 108, 105, 110, 120>>
\* "java"
java == <<106, 97, 118, 97>>
\* "javax"
javax == <<106, 97, 118, 97, 120>>
\* "zzz_other"
zzz_other == <<122, 122, 122, 95, 111, 116, 104, 101, 114>>

IMPORT_ORDER ==
    <<kwStatic, android, androidx, com, net, org, kotlin, kotlinx, java, javax>>

SUPPORTED_EXTENSIONS == {".java", ".kt"}

-----------------------------------------------------------------------------
(* Python string primitives *)

Min(S) == CHOOSE m \in S : \A n \in S : m <= n

Range(s) == {s[i] : i \in 1..Len(s)}

\* str.strip() and the regex class \s, on ASCII
IsSpace(c) == c \in {9, 10, 11, 12, 13, 32}

\* the regex class \w, on ASCII
IsWord(c) == c \in (48..57) \cup (65..90) \cup (97..122) \cup {95}

\* [\w\.\*]
IsPathChar(c) == IsWord(c) \/ c \in {46, 42}

\* [\w\.]
IsPkgChar(c) == IsWord(c) \/ c = 46

RECURSIVE LStrip(_)
LStrip(s) ==
    IF s = <<>> THEN s
    ELSE IF IsSpace(Head(s)) THEN LStrip(Tail(s)) ELSE s

RECURSIVE RStrip(_)
RStrip(s) ==
    IF s = <<>> THEN s
    ELSE IF IsSpace(s[Len(s)]) THEN RStrip(SubSeq(s, 1, Len(s) - 1)) ELSE s

Strip(s) == RStrip(LStrip(s))

StartsWith(s, p) == Len(s) >= Len(p) /\ SubSeq(s, 1, Len(p)) = p

EndsWith(s, p) ==
    Len(s) >= Len(p) /\ SubSeq(s, Len(s) - Len(p) + 1, Len(s)) = p

\* p occurs in s at position i
HasAt(s, p, i) == i + Len(p) - 1 <= Len(s) /\ SubSeq(s, i, i + Len(p) - 1) = p

\* "p in s"
Contains(s, p) == \E i \in 1..Len(s) : HasAt(s, p, i)

\* s.count(p), for a p that cannot overlap itself
Count(s, p) == Cardinality({i \in 1..Len(s) : HasAt(s, p, i)})

\* end (exclusive) of the greedy run \s* starting at i
SpaceEnd(s, i) ==
    LET stops == {j \in i..Len(s) : ~IsSpace(s[j])}
    IN  IF stops = {} THEN Len(s) + 1 ELSE Min(stops)

\* end (exclusive) of the greedy run [\w\.\*]* starting at i
PathEnd(s, i) ==
    LET stops == {j \in i..Len(s) : ~IsPathChar(s[j])}
    IN  IF stops = {} THEN Len(s) + 1 ELSE Min(stops)

\* end (exclusive) of the greedy run [\w\.]* starting at i
PkgEnd(s, i) ==
    LET stops == {j \in i..Len(s) : ~IsPkgChar(s[j])}
    IN  IF stops = {} THEN Len(s) + 1 ELSE Min(stops)

\* path.split(".")[0]
SplitDotFirst(path) ==
    LET dots == {j \in 1..Len(path) : path[j] = 46}
    IN  IF dots = {} THEN path ELSE SubSeq(path, 1, Min(dots) - 1)

\* a < b on str: code-point order, a proper prefix first
StrLess(a, b) ==
    LET n == IF Len(a) < Len(b) THEN Len(a) ELSE Len(b)
        d == {i \in 1..n : a[i] # b[i]}
    IN  IF d = {} THEN Len(a) < Len(b) ELSE a[Min(d)] < b[Min(d)]

\* p < q on the tuples (path, line)
TupleLess(p, q) == StrLess(p[1], q[1]) \/ (p[1] = q[1] /\ StrLess(p[2], q[2]))

-----------------------------------------------------------------------------
(* The regular expressions *)

\* PACKAGE_RE.match(line): ^package\s+[\w\.]+;?\s*$
PACKAGE_RE(line) ==
    /\ HasAt(line, kwPackage, 1)
    /\ LET j == SpaceEnd(line, 8)
           k == PkgEnd(line, j)
           m == IF k <= Len(line) /\ line[k] = 59 THEN k + 1 ELSE k
       IN  /\ j > 8
           /\ k > j
           /\ SpaceEnd(line, m) = Len(line) + 1

\* IMPORT_RE.match(line): ^(import\s+static|import)\s+([\w\.\*]+)(;)?
\* The first alternative is tried first; when the rest of the pattern fails
\* after it, the second alternative is tried.  Every run is followed by a
\* character outside its class, so the greedy match is the only one.
\* The result carries group(1) and group(2).
IMPORT_RE(line) ==
    LET j  == SpaceEnd(line, 7)
        k  == SpaceEnd(line, j + 6)
        e1 == PathEnd(line, k)
        e2 == PathEnd(line, j)
        alt1 == /\ HasAt(line, kwImport, 1)
                /\ j > 7
                /\ HasAt(line, kwStatic, j)
                /\ k > j + 6
                /\ e1 > k
        alt2 == /\ HasAt(line, kwImport, 1)
                /\ j > 7
                /\ e2 > j
    IN  IF alt1
        THEN [ok |-> TRUE, g1 |-> SubSeq(line, 1, j + 5),
              g2 |-> SubSeq(line, k, e1 - 1)]
        ELSE IF alt2
        THEN [ok |-> TRUE, g1 |-> kwImport, g2 |-> SubSeq(line, j, e2 - 1)]
        ELSE [ok |-> FALSE, g1 |-> EmptyStr, g2 |-> EmptyStr]

-----------------------------------------------------------------------------
(* sort_imports *)

\* the key of the bucket a record is appended to
BucketKey(rec) ==
    IF rec.is_static THEN kwStatic
    ELSE LET top == SplitDotFirst(rec.path)
             hit == {i \in 1..Len(IMPORT_ORDER) : IMPORT_ORDER[i] = top}
         IN  IF hit # {} THEN IMPORT_ORDER[Min(hit)] ELSE zzz_other

\* groups, after the first loop: every key with its (path, line) tuples in
\* input order; a key never appended to holds the empty list
Grouping(recs) ==
    [g \in Range(IMPORT_ORDER) \cup {zzz_other} |->
        LET InBucket(r) == BucketKey(r) = g
            sel == SelectSeq(recs, InBucket)
        IN  [i \in 1..Len(sel) |-> <<sel[i].path, sel[i].line>>]]

\* position at which t is inserted into the sorted list s
InsertAt(t, s) ==
    LET later == {i \in 1..Len(s) : TupleLess(t, s[i])}
    IN  IF later = {} THEN Len(s) + 1 ELSE Min(later)

RECURSIVE SortedTuples(_)
SortedTuples(s) ==
    IF s = <<>> THEN <<>>
    ELSE LET init == SortedTuples(SubSeq(s, 1, Len(s) - 1))
             t    == s[Len(s)]
             p    == InsertAt(t, init)
         IN  SubSeq(init, 1, p - 1) \o <<t>> \o SubSeq(init, p, Len(init))

\* a bucket left in input order
UnsortedTuples(s) == s

\* sorted(groups[group])
sorted(s) == SortedTuples(s)

\* [line for _, line in ...]
LinesOf(s) == [i \in 1..Len(s) |-> s[i][2]]

\* the two emitting loops: every non-empty bucket, then one ""
RECURSIVE EmitGroups(_, _)
EmitGroups(grp, keys) ==
    IF keys = <<>> THEN <<>>
    ELSE LET g    == Head(keys)
             rest == EmitGroups(grp, Tail(keys))
         IN  IF grp[g] # <<>>
             THEN LinesOf(sorted(grp[g])) \o <<EmptyStr>> \o rest
             ELSE rest

\* while ordered and ordered[-1] == "": ordered.pop()
RECURSIVE PopBlanks(_)
PopBlanks(s) ==
    IF s # <<>> /\ s[Len(s)] = EmptyStr
    THEN PopBlanks(SubSeq(s, 1, Len(s) - 1))
    ELSE s

sort_imports(recs) ==
    PopBlanks(EmitGroups(Grouping(recs), IMPORT_ORDER \o <<zzz_other>>))

-----------------------------------------------------------------------------
(* process_file *)

\* f.readlines(): the content cut after every "\n", line ends kept
RECURSIVE readlines(_)
readlines(c) ==
    IF c = <<>> THEN <<>>
    ELSE LET nls == {i \in 1..Len(c) : c[i] = 10}
             e   == IF nls = {} THEN Len(c) ELSE Min(nls)
         IN  <<SubSeq(c, 1, e)>> \o readlines(SubSeq(c, e + 1, Len(c)))

\* f.writelines(new_lines): the lines joined
RECURSIVE writelines(_)
writelines(ls) ==
    IF ls = <<>> THEN <<>> ELSE Head(ls) \o writelines(Tail(ls))

\* "not line or line.startswith('//')", on the stripped line
IsSkipped(line) == line = EmptyStr \/ StartsWith(line, slashes)

\* the scan loop reaches "package_idx = idx" on this raw line
IsPackageLine(raw) ==
    LET line == Strip(raw) IN ~IsSkipped(line) /\ PACKAGE_RE(line)

\* the scan loop reaches "if import_match:" with a match on this raw line
IsImportLine(raw) ==
    LET line == Strip(raw)
    IN  ~IsSkipped(line) /\ ~PACKAGE_RE(line) /\ IMPORT_RE(line).ok

\* the tuple (is_static, path, line) appended to imports
ImportRecord(raw, e) ==
    LET line == Strip(raw)
        m    == IMPORT_RE(line)
    IN  [is_static |-> m.g1 = kwImportStatic,
         path      |-> m.g2,
         line      |-> IF e = ".java" /\ ~EndsWith(line, Semicolon)
                       THEN line \o Semicolon ELSE line]

\* the indices of a set, ascending
RECURSIVE Ascending(_)
Ascending(S) ==
    IF S = {} THEN <<>> ELSE <<Min(S)>> \o Ascending(S \ {Min(S)})

\* import_lines after the scan loop
import_lines(lines) ==
    Ascending({i \in 1..Len(lines) : IsImportLine(lines[i])})

\* package_idx after the scan loop: the last package line, 0 for none
package_idx(lines) ==
    LET pk == {i \in 1..Len(lines) : IsPackageLine(lines[i])}
    IN  IF pk = {} THEN 0 ELSE CHOOSE i \in pk : \A j \in pk : j <= i

\* imports after the scan loop
parsed_imports(lines, e) ==
    LET il == import_lines(lines)
    IN  [i \in 1..Len(il) |-> ImportRecord(lines[il[i]], e)]

\* star_imports after the scan loop, as line numbers
star_imports(lines) ==
    LET il == import_lines(lines)
        IsStar(i) == Contains(ImportRecord(lines[i], ".kt").path, starChar)
    IN  SelectSeq(il, IsStar)

\* next_content_idx after the while loop: the first line after `last` that
\* is neither blank nor a comment
next_content_idx(lines, last) ==
    LET body == {i \in (last + 1)..Len(lines) : ~IsSkipped(Strip(lines[i]))}
    IN  IF body = {} THEN Len(lines) + 1 ELSE Min(body)

\* preserved_lines: the comment lines skipped by the while loop, then "\n"
preserved_lines(lines, last) ==
    LET nci == next_content_idx(lines, last)
        IsComment(i) == Strip(lines[i]) # EmptyStr
        keep == SelectSeq(Ascending((last + 1)..(nci - 1)), IsComment)
    IN  [k \in 1..Len(keep) |-> lines[keep[k]]] \o <<NL>>

\* lines[: package_idx + 1] when a package line was seen, lines[:first] else
kept_head(lines, pkg, first) ==
    IF pkg # 0
    THEN SubSeq(lines, 1, pkg) \o <<NL>>
    ELSE SubSeq(lines, 1, first - 1)

\* new_lines
new_lines(lines, e) ==
    LET il    == import_lines(lines)
        first == il[1]
        last  == il[Len(il)]
        srt   == sort_imports(parsed_imports(lines, e))
    IN  kept_head(lines, package_idx(lines), first)
        \o [i \in 1..Len(srt) |-> srt[i] \o NL]
        \o preserved_lines(lines, last)
        \o SubSeq(lines, next_content_idx(lines, last), Len(lines))

\* process_file(filepath) on a file of content c and extension e: whether
\* the file is written, and its content afterwards
process_file(e, c) ==
    LET lines == readlines(c)
    IN  IF import_lines(lines) = <<>>
        THEN [wrote |-> FALSE, content |-> c]
        ELSE [wrote |-> TRUE, content |-> writelines(new_lines(lines, e))]

-----------------------------------------------------------------------------
(* scan_and_process *)

\* lines 198-206 on one file: the counters after the file was read
scan_counts(c, i, found, stars, nfiles, nimports) ==
    LET import_count == Count(c, kwImportSp)
    IN  IF import_count > 0
        THEN [found    |-> TRUE,
              stars    |-> IF Contains(c, starChar)
                           THEN Append(stars, i) ELSE stars,
              nfiles   |-> nfiles + 1,
              nimports |-> nimports + import_count]
        ELSE [found |-> found, stars |-> stars, nfiles |-> nfiles,
              nimports |-> nimports]

\* a read that raises is caught and the traversal goes on with the next file
SkipOnReadError(i) == [pc |-> "scan", idx |-> i + 1]

\* open()/read() raising on file i: nothing catches it, the run ends there
OnReadError(i) == [pc |-> "raised", idx |-> i]

\* lines 209-224: what is printed after the traversal
final_prints(found, stars) ==
    IF ~found THEN {"no_imports"}
    ELSE (IF stars # <<>> THEN {"star_warnings"} ELSE {}) \cup {"summary"}

-----------------------------------------------------------------------------
(* Inputs *)

\* "package x;"
LnPackage == <<112, 97, 99, 107, 97, 103, 101, 32, 120, 59>>
\* "import com.b.X"
LnComB == <<105, 109, 112, 111, 114, 116, 32, 99, 111, 109, 46, 98, 46, 88>>
\* "import com.a.Y;"
LnComA == <<105, 109, 112, 111, 114, 116, 32, 99, 111, 109, 46, 97, 46, 89, 59>>
\* "import static a.B;"
LnStatic == <<105, 109, 112, 111, 114, 116, 32, 115, 116, 97, 116, 105, 99, 32, 97, 46, 66, 59>>
\* "import foo.bar.*"
LnStar == <<105, 109, 112, 111, 114, 116, 32, 102, 111, 111, 46, 98, 97, 114, 46, 42>>
\* "// c"
LnComment == <<47, 47, 32, 99>>
\* "class X {}"
LnCode == <<99, 108, 97, 115, 115, 32, 88, 32, 123, 125>>
\* "import static.S"
LnStaticPkg == <<105, 109, 112, 111, 114, 116, 32, 115, 116, 97, 116, 105, 99, 46, 83>>
\* "import android.X"
LnAndroid == <<105, 109, 112, 111, 114, 116, 32, 97, 110, 100, 114, 111, 105, 100, 46, 88>>
\* "import javax.Z"
LnJavax == <<105, 109, 112, 111, 114, 116, 32, 106, 97, 118, 97, 120, 46, 90>>
\* "import\tnet.T"
LnTab == <<105, 109, 112, 111, 114, 116, 9, 110, 101, 116, 46, 84>>
\* "int x = 2 * 3;"
LnMul == <<105, 110, 116, 32, 120, 32, 61, 32, 50, 32, 42, 32, 51, 59>>

SeqsUpTo(S, n) == UNION {[1..k -> S] : k \in 0..n}

\* import lines the records handed to sort_imports are parsed from
ImportLinePool ==
    {LnStatic, LnStaticPkg, LnAndroid, LnComB, LnComA, LnStar, LnJavax}

\* lines of the files handed to process_file, each ended by "\n"
FileLinePool ==
    {LnPackage, LnComB, LnComA, LnStatic, LnStar, LnComment, EmptyStr, LnCode}

FileContents ==
    {writelines([i \in 1..Len(ls) |-> ls[i] \o NL]) :
        ls \in SeqsUpTo(FileLinePool, MaxLines)}

\* contents of the files of the scanned directory
DirContents ==
    { LnCode \o NL,
      LnTab \o NL,
      LnComA \o NL \o LnMul \o NL,
      LnStar \o NL,
      LnPackage \o NL \o LnComB \o NL }

Files == 1..NumFiles

-----------------------------------------------------------------------------
(* Specification of sort_imports *)

SortIdle ==
    /\ imports = <<>> /\ groups = <<>> /\ ordered = <<>> /\ pcS = "idle"

FileIdle ==
    /\ ext = ".kt" /\ content0 = <<>> /\ content = <<>> /\ out1 = <<>>
    /\ passes = 0

RunIdle ==
    /\ fs0 = <<>> /\ fs = <<>> /\ idx = 0 /\ pc = "idle"
    /\ found_imports = FALSE /\ star_import_files = <<>>
    /\ processed_files = 0 /\ processed_imports = 0
    /\ log = <<>> /\ printed = {}

InitSort ==
    /\ \E e \in SUPPORTED_EXTENSIONS :
          imports \in SeqsUpTo({ImportRecord(l, e) : l \in ImportLinePool},
                               MaxImports)
    /\ groups = <<>>
    /\ ordered = <<>>
    /\ pcS = "call"
    /\ FileIdle
    /\ RunIdle

SortImports ==
    /\ pcS = "call"
    /\ groups' = Grouping(imports)
    /\ ordered' = sort_imports(imports)
    /\ pcS' = "done"
    /\ UNCHANGED <<imports, fileVars, runVars>>

NextSort == SortImports

SpecSort == InitSort /\ [][NextSort]_vars

-----------------------------------------------------------------------------
(* Specification of process_file, run again on its own output *)

InitFile ==
    /\ ext \in SUPPORTED_EXTENSIONS
    /\ content0 \in FileContents
    /\ content = content0
    /\ out1 = content0
    /\ passes = 0
    /\ SortIdle
    /\ RunIdle

ProcessFile ==
    /\ passes < MaxPasses
    /\ content' = process_file(ext, content).content
    /\ out1' = IF passes = 0 THEN content' ELSE out1
    /\ passes' = passes + 1
    /\ UNCHANGED <<ext, content0, sortVars, runVars>>

NextFile == ProcessFile

SpecFile == InitFile /\ [][NextFile]_vars

-----------------------------------------------------------------------------
(* Specification of scan_and_process *)

InitRun ==
    /\ fs0 \in [Files -> [ext : SUPPORTED_EXTENSIONS, content : DirContents]]
    /\ fs = fs0
    /\ idx = 1
    /\ pc = "scan"
    /\ found_imports = FALSE
    /\ star_import_files = <<>>
    /\ processed_files = 0
    /\ processed_imports = 0
    /\ log = <<>>
    /\ printed = {}
    /\ SortIdle
    /\ FileIdle

\* lines 198-206: the file is read and its "import " occurrences counted
ScanFile ==
    /\ pc = "scan"
    /\ idx \in Files
    /\ LET r == scan_counts(fs[idx].content, idx, found_imports,
                            star_import_files, processed_files,
                            processed_imports)
       IN  /\ found_imports' = r.found
           /\ star_import_files' = r.stars
           /\ processed_files' = r.nfiles
           /\ processed_imports' = r.nimports
    /\ log' = Append(log, [op |-> "read", file |-> idx])
    /\ pc' = "process"
    /\ UNCHANGED <<fs0, fs, idx, printed, sortVars, fileVars>>

\* line 198/199: open() or read() raises
ScanRaises ==
    /\ pc = "scan"
    /\ idx \in Files
    /\ log' = Append(log, [op |-> "raise", file |-> idx])
    /\ pc' = OnReadError(idx).pc
    /\ idx' = OnReadError(idx).idx
    /\ UNCHANGED <<fs0, fs, found_imports, star_import_files, processed_files,
                   processed_imports, printed, sortVars, fileVars>>

\* line 207: process_file reads, transforms and, with imports, writes
ProcessStep ==
    /\ pc = "process"
    /\ LET r == process_file(fs[idx].ext, fs[idx].content)
       IN  /\ fs' = [fs EXCEPT ![idx].content = r.content]
           /\ log' = log \o <<[op |-> "read", file |-> idx]>>
                         \o (IF r.wrote
                             THEN <<[op |-> "write", file |-> idx]>>
                             ELSE <<>>)
    /\ idx' = idx + 1
    /\ pc' = "scan"
    /\ UNCHANGED <<fs0, found_imports, star_import_files, processed_files,
                   processed_imports, printed, sortVars, fileVars>>

\* line 115/116: open() or readlines() raises inside process_file
ProcessRaises ==
    /\ pc = "process"
    /\ log' = Append(log, [op |-> "raise", file |-> idx])
    /\ pc' = OnReadError(idx).pc
    /\ idx' = OnReadError(idx).idx
    /\ UNCHANGED <<fs0, fs, found_imports, star_import_files, processed_files,
                   processed_imports, printed, sortVars, fileVars>>

\* lines 209-224: the traversal is over
Finish ==
    /\ pc = "scan"
    /\ idx = NumFiles + 1
    /\ printed' = final_prints(found_imports, star_import_files)
    /\ pc' = "done"
    /\ UNCHANGED <<fs0, fs, idx, found_imports, star_import_files,
                   processed_files, processed_imports, log, sortVars, fileVars>>

NextRun ==
    \/ ScanFile
    \/ ScanRaises
    \/ ProcessStep
    \/ ProcessRaises
    \/ Finish

SpecRun == InitRun /\ [][NextRun]_vars

-----------------------------------------------------------------------------
(* Vocabulary of the properties *)

\* the known prefixes, in their priority order
KnownPrefixes ==
    <<android, androidx, com, net, org, kotlin, kotlinx, java, javax>>

\* priority index of the group of (is_static, path): 1 for static, 2..10
\* for the known prefixes, 11 for other
GroupIndex(is_static, path) ==
    IF is_static THEN 1
    ELSE LET top == SplitDotFirst(path)
             hit == {i \in 1..Len(KnownPrefixes) : KnownPrefixes[i] = top}
         IN  IF hit # {} THEN 1 + Min(hit) ELSE 2 + Len(KnownPrefixes)

\* the bucket of sort_imports that holds the group of that index
BucketOfIndex(n) ==
    IF n = 1 THEN kwStatic
    ELSE IF n <= 1 + Len(KnownPrefixes) THEN KnownPrefixes[n - 1]
    ELSE zzz_other

\* an emitted import line read back as (is_static, path)
LineGroupIndex(l) ==
    LET r == ImportRecord(l, ".kt") IN GroupIndex(r.is_static, r.path)

LinePath(l) == ImportRecord(l, ".kt").path

StrLeq(a, b) == a = b \/ StrLess(a, b)

Occurrences(x, s) == Cardinality({i \in 1..Len(s) : s[i] = x})

SameBag(a, b) ==
    \A x \in Range(a) \cup Range(b) : Occurrences(x, a) = Occurrences(x, b)

\* a is b with elements left out
RECURSIVE IsSubsequence(_, _)
IsSubsequence(a, b) ==
    IF a = <<>> THEN TRUE
    ELSE IF b = <<>> THEN FALSE
    ELSE IF Head(a) = Head(b) THEN IsSubsequence(Tail(a), Tail(b))
    ELSE IsSubsequence(a, Tail(b))

\* the rendered import statements of a content, in file order
ImportStatements(c, e) ==
    LET recs == parsed_imports(readlines(c), e)
    IN  [i \in 1..Len(recs) |-> recs[i].line]

HasImports(c) == import_lines(readlines(c)) # <<>>

NonBlank(ls) ==
    LET Inked(l) == Strip(l) # EmptyStr IN SelectSeq(ls, Inked)

\* the lines strictly before the first import line
LinesBeforeImports(c) ==
    LET lines == readlines(c)
    IN  SubSeq(lines, 1, import_lines(lines)[1] - 1)

\* the lines from the first non-blank non-comment line after the last import
LinesAfterImports(c) ==
    LET lines == readlines(c)
        il    == import_lines(lines)
        later == {i \in (il[Len(il)] + 1)..Len(lines) :
                     /\ Strip(lines[i]) # EmptyStr
                     /\ ~StartsWith(Strip(lines[i]), slashes)}
    IN  IF later = {} THEN <<>> ELSE SubSeq(lines, Min(later), Len(lines))

\* the files named in the printed star-import warning block
StarListed ==
    IF "star_warnings" \in printed THEN Range(star_import_files) ELSE {}

RaisePositions == {p \in 1..Len(log) : log[p].op = "raise"}

Rewritten == {log[p].file : p \in {q \in 1..Len(log) : log[q].op = "write"}}

-----------------------------------------------------------------------------
(* Properties *)

\* C1: process_file is idempotent: the content after the second pass over a
\* file equals the content after the first pass.
C1_Idempotent == passes >= 2 => content = out1

\* C2: for a file with at least one import, the multiset of import
\* statements of the rewritten file equals the multiset of import records
\* parsed from the original file, each rendered with the ';' of .java files.
C2_ImportsPreserved ==
    (passes >= 1 /\ HasImports(content0)) =>
        SameBag(ImportStatements(out1, ext), ImportStatements(content0, ext))

\* C3: for a file with at least one import, every non-blank line strictly
\* before the first import line and every line from the first non-blank
\* non-comment line after the last import onward is found in the rewritten
\* file, unchanged and in the same relative order.
C3_OutsidePreserved ==
    (passes >= 1 /\ HasImports(content0)) =>
        IsSubsequence(NonBlank(LinesBeforeImports(content0))
                          \o LinesAfterImports(content0),
                      readlines(out1))

\* C4: in the block sort_imports returns, a line of group G1 before a line
\* of group G2 means priority(G1) <= priority(G2) in the order static,
\* android, androidx, com, net, org, kotlin, kotlinx, java, javax, other.
C4_GroupOrder ==
    pcS = "done" =>
        \A i, j \in 1..Len(ordered) :
            (i < j /\ ordered[i] # EmptyStr /\ ordered[j] # EmptyStr) =>
                LineGroupIndex(ordered[i]) <= LineGroupIndex(ordered[j])

\* C5: in the block sort_imports returns, two adjacent import lines of the
\* same group have their paths in non-decreasing code-point order.
C5_WithinGroupSorted ==
    pcS = "done" =>
        \A i \in 1..(Len(ordered) - 1) :
            (/\ ordered[i] # EmptyStr
             /\ ordered[i + 1] # EmptyStr
             /\ LineGroupIndex(ordered[i]) = LineGroupIndex(ordered[i + 1])) =>
                StrLeq(LinePath(ordered[i]), LinePath(ordered[i + 1]))

\* C5 witness: sort_imports returned two adjacent lines of one group whose
\* records arrived in the opposite order.
C5_Witness ==
    /\ pcS = "done"
    /\ \E i \in 1..(Len(ordered) - 1) : \E p, q \in 1..Len(imports) :
          /\ p < q
          /\ imports[q].line = ordered[i]
          /\ imports[p].line = ordered[i + 1]
          /\ LineGroupIndex(ordered[i]) = LineGroupIndex(ordered[i + 1])
          /\ StrLess(LinePath(ordered[i]), LinePath(ordered[i + 1]))

\* C6: for a non-empty input, the block sort_imports returns has no leading
\* and no trailing blank line, never two consecutive blank lines, a blank
\* line exactly between the lines of consecutive groups, and is the single
\* line for a single import.
C6_BlankLineRule ==
    (pcS = "done" /\ imports # <<>>) =>
        /\ ordered # <<>>
        /\ ordered[1] # EmptyStr
        /\ ordered[Len(ordered)] # EmptyStr
        /\ \A i \in 1..(Len(ordered) - 1) :
              /\ ~(ordered[i] = EmptyStr /\ ordered[i + 1] = EmptyStr)
              /\ (ordered[i] # EmptyStr /\ ordered[i + 1] # EmptyStr) =>
                    LineGroupIndex(ordered[i]) = LineGroupIndex(ordered[i + 1])
        /\ \A i \in 2..(Len(ordered) - 1) :
              (/\ ordered[i] = EmptyStr
               /\ ordered[i - 1] # EmptyStr
               /\ ordered[i + 1] # EmptyStr) =>
                    LineGroupIndex(ordered[i - 1]) # LineGroupIndex(ordered[i + 1])
        /\ Len(imports) = 1 => ordered = <<imports[1].line>>

\* C7: sort_imports places every record in exactly one bucket: static iff
\* is_static, else the bucket of the first segment of the path when that is
\* a known prefix, else other.
C7_GroupAssignment ==
    pcS = "done" =>
        \A i \in 1..Len(imports) : \A g \in DOMAIN groups :
            (<<imports[i].path, imports[i].line>> \in Range(groups[g]))
                <=> (g = BucketOfIndex(GroupIndex(imports[i].is_static,
                                                  imports[i].path)))

\* C8: at the end of a run, a file is listed in the star-import warning
\* block if and only if it holds an import statement whose path contains '*'.
C8_StarListedIffStarImport ==
    pc = "done" =>
        \A k \in Files :
            (k \in StarListed)
                <=> (star_imports(readlines(fs0[k].content)) # <<>>)

\* C9: files are read, transformed and written one at a time in traversal
\* order; when a read of file k raises, nothing happens afterwards: file k
\* and every later file keep their content, no later file is read or
\* written, nothing of the final report is printed, and every earlier file
\* holds its rewritten content.
C9_AbortOnFirstFault ==
    /\ \A p, q \in 1..Len(log) :
          p < q => /\ log[p].file <= log[q].file
                   /\ (log[p].file = log[q].file => log[p].op = "read")
    /\ \A p \in RaisePositions :
          LET k == log[p].file
          IN  /\ p = Len(log)
              /\ printed = {}
              /\ \A j \in Files :
                    /\ j >= k => fs[j] = fs0[j]
                    /\ j > k => \A q \in 1..Len(log) : log[q].file # j
                    /\ j < k => fs[j].content =
                          process_file(fs0[j].ext, fs0[j].content).content

\* C9 witness: the read of the second file raised after the first file had
\* been rewritten.
C9_Witness ==
    /\ pc = "raised"
    /\ RaisePositions # {}
    /\ idx = 2
    /\ 1 \in Rewritten
    /\ fs[1] # fs0[1]

\* C10: when the no-imports warning is printed, no file was rewritten
\* during the run.
C10_NoImportsMeansNoRewrite ==
    (pc = "done" /\ "no_imports" \in printed) => Rewritten = {}

=============================================================================
